---------------------------- MODULE Spec2Model ----------------------------
(***************************************************************************)
(* Rotten-Issue-Tracker (src/main.go): one run of main is                  *)
(*   config -> fetchOldIssues (filterAndSortIssues) -> read counter file   *)
(*   -> formattedWeeklyIssues -> write counter file -> PostMessage.        *)
(*                                                                         *)
(* time.Duration is an int64 count of nanoseconds.  TLC's integers are 32  *)
(* bits wide, so a Duration is held as its two's-complement bytes, least   *)
(* significant first, and the arithmetic of the code is done on the bytes  *)
(* with the width of the code (8 bytes, wrapping).                         *)
(***************************************************************************)
EXTENDS Integers, Sequences, FiniteSets, TLC

(***************************************************************************)
(* Fixed-width two's-complement integers.                                  *)
(***************************************************************************)
\* one byte of a machine integer
Base == 256
\* bytes of an int64 (time.Duration, int on the 64-bit build)
W64 == 8
\* a width in which no product or difference of this model overflows: the
\* arithmetic a statement ABOUT the code is made in
ExactBytes == W64 + 4

\* the w low bytes of the integer n (n may be negative: sign-extended)
RECURSIVE Bytes(_, _)
Bytes(n, w) ==
    IF w = 0 THEN << >> ELSE << n % Base >> \o Bytes(n \div Base, w - 1)

\* a's value re-read in w bytes (sign extension or truncation)
RECURSIVE Extend(_, _)
Extend(a, w) ==
    IF Len(a) >= w THEN SubSeq(a, 1, w)
    ELSE Extend(a \o << (IF a[Len(a)] >= Base \div 2 THEN Base - 1 ELSE 0) >>, w)

IsNeg(a) == a[Len(a)] >= Base \div 2

RECURSIVE ColSum(_, _, _, _)
ColSum(a, b, k, i) ==
    IF i > k THEN 0 ELSE a[i] * b[k + 1 - i] + ColSum(a, b, k, i + 1)

RECURSIVE MulCols(_, _, _, _)
MulCols(a, b, k, carry) ==
    IF k > Len(a) THEN << >>
    ELSE LET s == carry + ColSum(a, b, k, 1)
         IN  << s % Base >> \o MulCols(a, b, k + 1, s \div Base)

\* a * b, wrapped to the width of a (Go's integer multiplication)
Mul(a, b) == MulCols(a, b, 1, 0)

RECURSIVE AddCols(_, _, _, _)
AddCols(a, b, k, carry) ==
    IF k > Len(a) THEN << >>
    ELSE LET s == carry + a[k] + b[k]
         IN  << s % Base >> \o AddCols(a, b, k + 1, s \div Base)

\* a + b, wrapped to the width of a
Add(a, b) == AddCols(a, b, 1, 0)

RECURSIVE Not(_)
Not(a) == IF a = << >> THEN << >> ELSE << Base - 1 - Head(a) >> \o Not(Tail(a))

\* -a, wrapped
Neg(a) == Add(Not(a), Bytes(1, Len(a)))

\* a - b, wrapped
Sub(a, b) == Add(a, Neg(b))

RECURSIVE ULess(_, _, _)
ULess(a, b, i) ==
    IF i = 0 THEN FALSE
    ELSE IF a[i] # b[i] THEN a[i] < b[i]
    ELSE ULess(a, b, i - 1)

\* a < b, signed
SLess(a, b) ==
    IF IsNeg(a) # IsNeg(b) THEN IsNeg(a) ELSE ULess(a, b, Len(a))

RECURSIVE DivFrom(_, _, _, _)
DivFrom(a, d, i, rem) ==
    IF i = 0 THEN << >>
    ELSE LET cur == rem * Base + a[i]
         IN  DivFrom(a, d, i - 1, cur % d) \o << cur \div d >>

\* a \div d for a >= 0 and a small divisor 0 < d < 2^23
DivSmall(a, d) == DivFrom(a, d, Len(a), 0)

RECURSIVE UValue(_, _)
UValue(a, i) ==
    IF i > Len(a) THEN 0 ELSE a[i] + Base * UValue(a, i + 1)

\* the integer a holds, for a value of fewer than 31 bits
Value(a) == IF IsNeg(a) THEN 0 - UValue(Neg(a), 1) ELSE UValue(a, 1)

(***************************************************************************)
(* Time.  An instant (time.Time) is held as its distance in nanoseconds    *)
(* from the clock reading of the run, negative for the past; the clock is  *)
(* read as one instant for the whole run.  time.Since saturates at the     *)
(* ends of int64; every instant here is within 292 years of Now, where it  *)
(* is the plain difference.                                                *)
(***************************************************************************)
Second == Bytes(1000000000, W64)
Hour == Mul(Bytes(3600, W64), Second)
Now == Bytes(0, W64)

\* time.Since(t)
Since(t) == Sub(Now, t)

\* t.Before(u)
Before(t, u) == SLess(t, u)

\* the instant n days and extra nanoseconds before Now
DaysAgo(n, extra) ==
    Sub(Now, Add(Mul(Mul(Bytes(n, W64), Bytes(24, W64)), Hour), Bytes(extra, W64)))

(***************************************************************************)
(* Issues (type Issue, type Repository).  Body, State, CreatedAt and the   *)
(* repository ID are never read by the program and are left out.  A title  *)
(* is held as its length in bytes and the number of backticks in it.       *)
(***************************************************************************)
Nil == "nil"

Repository(name) == [Name |-> name, RepoURL |-> "https://github.com/org/" \o name]

Issue(n, title, name, updatedAt, isPR) ==
    [IssueURL   |-> "https://github.com/org/" \o name \o "/issues/" \o ToString(n),
     Title      |-> title,
     Repository |-> Repository(name),
     UpdatedAt  |-> updatedAt,
     IsPR       |-> isPR]

VARIABLES
    pc,                      \* where main is
    run,                     \* which run of the program this is
    rotteningTreshold,       \* flag -rottening-treshold (int, days)
    ignoredRepos,            \* the global map, as the set of its keys
    fetched,                 \* the issues deserialized from the response
    issues,                  \* what fetchOldIssues returned
    file,                    \* issues-last-week.txt: Missing or its text
    readBytes,               \* main's readBytes
    numberOfIssuesLastWeek,
    numberOfIssuesThisWeek,
    slackeMessage,
    attachmentTexts,
    attachments,
    posted,                  \* messages this run posted to the channel
    events,                  \* history: what this run has done, in order
    fileAtStart,             \* history: the counter file as the run found it
    lastWritten,             \* history: the count the latest run wrote
    fetches,                 \* history: requests this run sent to the API
    fatal                    \* what log.Fatal was called for, or None

vars == << pc, run, rotteningTreshold, ignoredRepos, fetched, issues, file,
           readBytes, numberOfIssuesLastWeek, numberOfIssuesThisWeek,
           slackeMessage, attachmentTexts, attachments, posted, events,
           fileAtStart, lastWritten, fetches, fatal >>

(***************************************************************************)
(* issueSlice and filterAndSortIssues.                                     *)
(***************************************************************************)
\* the mutant of Less: the comparison the wrong way round
LessNewestFirst(s, i, j) == Before(s[j].UpdatedAt, s[i].UpdatedAt)

\* issueSlice.Less
Less(s, i, j) == Before(s[i].UpdatedAt, s[j].UpdatedAt)

\* issueSlice.Swap
Swap(s, i, j) == [s EXCEPT ![i] = s[j], ![j] = s[i]]

\* sort.Sort(rotteningIssues): the library's insertion sort, which is what it
\* runs on a slice this short, through Less and Swap
RECURSIVE sink(_, _)
sink(s, j) ==
    IF j > 1 /\ Less(s, j, j - 1) THEN sink(Swap(s, j, j - 1), j - 1) ELSE s

RECURSIVE insertionSort(_, _)
insertionSort(s, i) ==
    IF i > Len(s) THEN s ELSE insertionSort(sink(s, i), i + 1)

sortSort(s) == insertionSort(s, 2)

\* rotteningTreshold*24*time.Hour, an int64 product
tresholdDuration(treshold) == Mul(Mul(treshold, Bytes(24, W64)), Hour)

\* the mutant of isRottening: >= for >
isRotteningAtTreshold(issue, limit) ==
    /\ issue.IsPR = Nil
    /\ ~SLess(Since(issue.UpdatedAt), limit)
    /\ issue.Repository.Name \notin ignoredRepos

\* the condition of line 87, limit being rotteningTreshold*24*time.Hour
isRottening(issue, limit) ==
    /\ issue.IsPR = Nil
    /\ SLess(limit, Since(issue.UpdatedAt))
    /\ issue.Repository.Name \notin ignoredRepos

filterAndSortIssues(list, treshold) ==
    LET limit == tresholdDuration(treshold)
    IN  sortSort(SelectSeq(list, LAMBDA issue : isRottening(issue, limit)))

(***************************************************************************)
(* formattedWeeklyIssues.  A message is held as the values fmt.Sprintf is  *)
(* given; an attachment text as the sequence of the bullets appended to    *)
(* it, each with its length in bytes: the code appends whole bullets and   *)
(* reads only len(attachmentText).                                         *)
(***************************************************************************)
\* len(attachmentText) above which the text is closed
AttachmentMax == 3500
\* bytes of the bullet's format string without its verbs
BulletFormatLen == 50

\* int(math.Floor(d.Seconds() / 86400)): whole days, rounded down
wholeDays(d) ==
    LET days(a) == Value(DivSmall(DivSmall(DivSmall(DivSmall(a, 1000), 1000), 1000), 86400))
    IN  IF IsNeg(d) THEN 0 - (days(Sub(Neg(d), Bytes(1, W64))) + 1) ELSE days(d)

\* len(fmt.Sprintf("%d", n))
RECURSIVE decimalLen(_)
decimalLen(n) ==
    IF n < 0 THEN 1 + decimalLen(0 - n)
    ELSE IF n < 10 THEN 1 ELSE 1 + decimalLen(n \div 10)

\* len(strings.Replace(issue.Title, "`", "", 100))
fixedTitleLen(title) ==
    title.bytes - (IF title.backticks < 100 THEN title.backticks ELSE 100)

\* the text line 121 appends for one issue
bullet(issue) ==
    LET daysAgo == wholeDays(Since(issue.UpdatedAt))
    IN  [IssueURL |-> issue.IssueURL,
         daysAgo  |-> daysAgo,
         bytes    |-> BulletFormatLen + Len(issue.IssueURL) + fixedTitleLen(issue.Title)
                        + Len(issue.Repository.RepoURL) + Len(issue.Repository.Name)
                        + decimalLen(daysAgo)]

RECURSIVE textLen(_)
textLen(text) == IF text = << >> THEN 0 ELSE Head(text).bytes + textLen(Tail(text))

\* the mutant of bulletLoop: the last, unfinished attachment is not added
RECURSIVE bulletLoopNoLast(_, _, _)
bulletLoopNoLast(rest, texts, text) ==
    IF rest = << >> THEN texts
    ELSE LET appended == Append(text, bullet(Head(rest)))
         IN  IF textLen(appended) > AttachmentMax
             THEN bulletLoopNoLast(Tail(rest), Append(texts, appended), << >>)
             ELSE bulletLoopNoLast(Tail(rest), texts, appended)

\* lines 114-132: the loop over the issues and the last attachment
RECURSIVE bulletLoop(_, _, _)
bulletLoop(rest, texts, text) ==
    IF rest = << >>
    THEN IF text # << >> THEN Append(texts, text) ELSE texts
    ELSE LET appended == Append(text, bullet(Head(rest)))
         IN  IF textLen(appended) > AttachmentMax
             THEN bulletLoop(Tail(rest), Append(texts, appended), << >>)
             ELSE bulletLoop(Tail(rest), texts, appended)

\* the mutant of formattedWeeklyIssues: the zero case is not told apart
formattedAlwaysListing(list, thisWeek, lastWeek, treshold) ==
    << [kind |-> "summary", thisWeek |-> thisWeek, treshold |-> treshold,
        trend |-> "same", delta |-> 0],
       bulletLoop(list, << >>, << >>) >>

\* returns << slackMessage, attachmentTexts >>
formattedWeeklyIssues(list, thisWeek, lastWeek, treshold) ==
    IF thisWeek = 0
    THEN << [kind |-> "congratulations", lastWeek |-> lastWeek], << >> >>
    ELSE << [kind     |-> "summary",
             thisWeek |-> thisWeek,
             treshold |-> treshold,
             trend    |-> IF thisWeek < lastWeek THEN "fewer"
                          ELSE IF thisWeek > lastWeek THEN "more" ELSE "same",
             delta    |-> IF thisWeek < lastWeek THEN lastWeek - thisWeek
                          ELSE thisWeek - lastWeek],
            bulletLoop(list, << >>, << >>) >>

(***************************************************************************)
(* Inputs.                                                                 *)
(***************************************************************************)
MaxIssues == 3
Missing == "missing"
None == "none"
Repos == {"core", "legacy"}
IgnoredSets == {{}, {"legacy"}}
\* 1 day; the last number of days whose product with 24h fits int64 and the
\* first whose product does not (it wraps to a negative Duration); twice
\* that (it wraps to about 25 minutes)
Tresholds == {1, 106751, 106752, 213504}
PlainTitle == [bytes |-> 40, backticks |-> 0]
UpdateTimes == {DaysAgo(1, 0), DaysAgo(1, 1), DaysAgo(2, 0)}
\* issues of every repository and update time, and pull requests old enough
\* to pass for rottening
FilterIssues ==
    {Issue(1, PlainTitle, name, t, Nil) : name \in Repos, t \in UpdateTimes}
        \cup {Issue(1, PlainTitle, name, DaysAgo(2, 0), "pull_request") : name \in Repos}

RECURSIVE SeqsUpTo(_, _)
SeqsUpTo(S, n) ==
    IF n = 0 THEN {<< >>}
    ELSE LET shorter == SeqsUpTo(S, n - 1)
         IN  shorter \cup {Append(s, x) : s \in {t \in shorter : Len(t) = n - 1}, x \in S}


(***************************************************************************)
(* filterAndSortIssues on its own: every list of at most MaxIssues issues, *)
(* every ignored set, every threshold.                                     *)
(***************************************************************************)
\* what a specification of one function never touches
restVars == << run, file, readBytes, attachments, posted, events, fileAtStart,
               lastWritten, fetches, fatal >>

InitRest ==
    /\ run = 1
    /\ file = Missing
    /\ readBytes = << >>
    /\ attachments = << >>
    /\ posted = << >>
    /\ events = << >>
    /\ fileAtStart = Missing
    /\ lastWritten = -1
    /\ fetches = 0
    /\ fatal = None

InitFilter ==
    /\ pc = "filter"
    /\ rotteningTreshold \in Tresholds
    /\ ignoredRepos \in IgnoredSets
    /\ fetched \in SeqsUpTo(FilterIssues, MaxIssues)
    /\ issues = << >>
    /\ numberOfIssuesLastWeek = 0
    /\ numberOfIssuesThisWeek = 0
    /\ slackeMessage = << >>
    /\ attachmentTexts = << >>
    /\ InitRest

FilterCall ==
    /\ pc = "filter"
    /\ issues' = filterAndSortIssues(fetched, Bytes(rotteningTreshold, W64))
    /\ pc' = "filtered"
    /\ UNCHANGED << rotteningTreshold, ignoredRepos, fetched, numberOfIssuesLastWeek,
                    numberOfIssuesThisWeek, slackeMessage, attachmentTexts >>
    /\ UNCHANGED restVars

NextFilter == FilterCall

SpecFilter == InitFilter /\ [][NextFilter]_vars

(***************************************************************************)
(* Statements about filterAndSortIssues.  They are made in exact           *)
(* arithmetic: threshold*24h and the elapsed time as integers, not as      *)
(* wrapped int64 values.                                                   *)
(***************************************************************************)
\* days * 24h, exactly
ExactTreshold(days) ==
    Mul(Mul(Bytes(days, ExactBytes), Bytes(24, ExactBytes)), Extend(Hour, ExactBytes))

\* the time from the issue's last update to Now, exactly
ExactElapsed(issue) ==
    Sub(Extend(Now, ExactBytes), Extend(issue.UpdatedAt, ExactBytes))

Range(s) == {s[i] : i \in 1..Len(s)}

Count(s, x) == Cardinality({i \in 1..Len(s) : s[i] = x})

\* C1: no issue returned by filterAndSortIssues is a pull request, none is in
\* an ignored repository, and each has an elapsed time since its last update
\* of at least threshold*24h.
C1_ReturnedIssuesAreRotten ==
    pc = "filtered" =>
        LET exact == ExactTreshold(rotteningTreshold)
        IN  \A i \in 1..Len(issues) :
                /\ issues[i].IsPR = Nil
                /\ issues[i].Repository.Name \notin ignoredRepos
                /\ ~SLess(ExactElapsed(issues[i]), exact)

\* C2 as stated: an input issue that is no pull request, is in no ignored
\* repository and whose elapsed time is at least threshold*24h (exactly
\* threshold*24h included) is in the output.
C2_AtTresholdIsReturned ==
    pc = "filtered" =>
        LET exact == ExactTreshold(rotteningTreshold)
        IN  \A k \in 1..Len(fetched) :
                ( /\ fetched[k].IsPR = Nil
                  /\ fetched[k].Repository.Name \notin ignoredRepos
                  /\ ~SLess(ExactElapsed(fetched[k]), exact) )
                => fetched[k] \in Range(issues)

\* C2 amended: an input issue is left out only if it is a pull request, or
\* its repository is ignored, or its elapsed time is not greater than the
\* threshold duration, which is the int64 product rotteningTreshold*24*time.Hour
\* and equals threshold*24h whenever that fits int64; every other input issue
\* is in the output, and one whose elapsed time is exactly threshold*24h is not.
C2_OnlyThreeReasonsExclude ==
    pc = "filtered" =>
        LET exact == ExactTreshold(rotteningTreshold)
            limit == Extend(tresholdDuration(Bytes(rotteningTreshold, W64)), ExactBytes)
        IN  /\ rotteningTreshold \in -106751..106751 => limit = exact
            /\ \A k \in 1..Len(fetched) :
                  LET x == fetched[k]
                      elapsed == ExactElapsed(x)
                  IN  /\ ( /\ x.IsPR = Nil
                           /\ x.Repository.Name \notin ignoredRepos
                           /\ SLess(limit, elapsed) )
                         => x \in Range(issues)
                      /\ (limit = exact /\ elapsed = exact) => x \notin Range(issues)

\* C2's case: with a threshold of 1 day, an issue last updated exactly 24h ago
\* is left out and one updated a nanosecond earlier is returned.
C2_Witness ==
    /\ pc = "filtered"
    /\ rotteningTreshold = 1
    /\ \E k \in 1..Len(fetched) :
          /\ fetched[k].IsPR = Nil
          /\ fetched[k].Repository.Name \notin ignoredRepos
          /\ fetched[k].UpdatedAt = DaysAgo(1, 0)
          /\ fetched[k] \notin Range(issues)
    /\ \E i \in 1..Len(issues) : issues[i].UpdatedAt = DaysAgo(1, 1)

\* C3: the returned list is ordered by updated_at, oldest first (no issue is
\* updated before one that precedes it), and is a permutation of the issues
\* that pass the filter.
C3_SortedPermutation ==
    pc = "filtered" =>
        LET limit == tresholdDuration(Bytes(rotteningTreshold, W64))
            kept == SelectSeq(fetched, LAMBDA x : isRottening(x, limit))
        IN  /\ \A i, j \in 1..Len(issues) :
                   i < j => ~Before(issues[j].UpdatedAt, issues[i].UpdatedAt)
            /\ Len(issues) = Len(kept)
            /\ \A x \in Range(kept) \cup Range(issues) : Count(issues, x) = Count(kept, x)

\* C3's case: three issues pass the filter, arrive newest first, with a tie,
\* and are returned.
C3_Witness ==
    /\ pc = "filtered"
    /\ rotteningTreshold = 1
    /\ Len(issues) = 3
    /\ Len(fetched) = 3
    /\ Before(fetched[3].UpdatedAt, fetched[1].UpdatedAt)
    /\ fetched[1].UpdatedAt = fetched[2].UpdatedAt
    /\ issues[1] = fetched[3]

(***************************************************************************)
(* formattedWeeklyIssues on its own, on what filterAndSortIssues returns:  *)
(* at most MaxListed issues, oldest first, none a pull request, with       *)
(* this week's count their number, as main passes it.                      *)
(***************************************************************************)
MaxListed == 7
\* an ordinary title, and a long one with more backticks than Replace removes
Titles == {[bytes |-> 579, backticks |-> 0], [bytes |-> 729, backticks |-> 120]}
LastWeekCounts == {0, 5}

\* the n-th issue of a list: older the earlier it comes
Listed(n, title) == Issue(10 + n, title, "core", DaysAgo(400 - n, 0), Nil)

ListedIssues ==
    UNION {{[i \in 1..n |-> Listed(i, t[i])] : t \in [1..n -> Titles]} : n \in 0..MaxListed}

InitFormat ==
    /\ pc = "format"
    /\ rotteningTreshold = 100
    /\ ignoredRepos = {}
    /\ fetched = << >>
    /\ issues \in ListedIssues
    /\ numberOfIssuesLastWeek \in LastWeekCounts
    /\ numberOfIssuesThisWeek = Len(issues)
    /\ slackeMessage = << >>
    /\ attachmentTexts = << >>
    /\ InitRest

FormatCall ==
    /\ pc = "format"
    /\ LET r == formattedWeeklyIssues(issues, numberOfIssuesThisWeek,
                                      numberOfIssuesLastWeek, rotteningTreshold)
       IN  slackeMessage' = r[1] /\ attachmentTexts' = r[2]
    /\ pc' = "formatted"
    /\ UNCHANGED << rotteningTreshold, ignoredRepos, fetched, issues,
                    numberOfIssuesLastWeek, numberOfIssuesThisWeek >>
    /\ UNCHANGED restVars

NextFormat == FormatCall

SpecFormat == InitFormat /\ [][NextFormat]_vars

(***************************************************************************)
(* The counter file.  Its text is a sequence of characters.                *)
(***************************************************************************)
DigitChars == << "0", "1", "2", "3", "4", "5", "6", "7", "8", "9" >>

IsDigit(ch) == \E d \in 1..10 : DigitChars[d] = ch

DigitValue(ch) == (CHOOSE d \in 1..10 : DigitChars[d] = ch) - 1

\* the mutant of Itoa: the digits come out least significant first
RECURSIVE ItoaReversed(_)
ItoaReversed(n) ==
    IF n < 0 THEN << "-" >> \o ItoaReversed(0 - n)
    ELSE IF n < 10 THEN << DigitChars[n + 1] >>
    ELSE << DigitChars[(n % 10) + 1] >> \o ItoaReversed(n \div 10)

\* strconv.Itoa
RECURSIVE Itoa(_)
Itoa(n) ==
    IF n < 0 THEN << "-" >> \o Itoa(0 - n)
    ELSE IF n < 10 THEN << DigitChars[n + 1] >>
    ELSE Itoa(n \div 10) \o << DigitChars[(n % 10) + 1] >>

RECURSIVE digitsValue(_, _)
digitsValue(s, n) ==
    IF s = << >> THEN n ELSE digitsValue(Tail(s), n * 10 + DigitValue(Head(s)))

\* strconv.Atoi on a text of fewer than 19 bytes: the value and whether it failed
Atoi(s) ==
    LET signed == s # << >> /\ Head(s) \in {"-", "+"}
        digits == IF signed THEN Tail(s) ELSE s
    IN  IF digits = << >> \/ \E i \in 1..Len(digits) : ~IsDigit(digits[i])
        THEN [n |-> 0, err |-> TRUE]
        ELSE [n   |-> IF signed /\ Head(s) = "-" THEN 0 - digitsValue(digits, 0)
                      ELSE digitsValue(digits, 0),
              err |-> FALSE]

(***************************************************************************)
(* main, run after run.  What the environment decides (the flags, the      *)
(* response of the API, whether a write or a post succeeds) is chosen in   *)
(* the step that meets it.                                                 *)
(***************************************************************************)
MaxRuns == 2
MaxFetched == 14
MainTresholds == {1, 100}
\* the file as the first run may find it: absent, empty, not a number, a
\* number followed by a newline, numbers
InitialFiles == {Missing, << >>, << "x" >>, << "7", "\n" >>, << "7" >>, << "1", "2" >>}
FetchErrors == {"transport", "read body", "status", "unmarshal"}
NextBatch == "*Next batch of newer but still rottening issues: *"

\* the k-th open issue of the organisation: every fourth a pull request,
\* every third in the legacy repository, updated between 95 and 106 days ago
OrgIssue(k) ==
    Issue(k,
          [bytes |-> 229 + (k % 2) * 25, backticks |-> 0],
          IF k % 3 = 0 THEN "legacy" ELSE "core",
          DaysAgo(95 + ((k * 5 + 7) % 12), k),
          IF k % 4 = 0 THEN "pull_request" ELSE Nil)

Responses == {[k \in 1..n |-> OrgIssue(k)] : n \in 0..MaxFetched}

InitMain ==
    /\ pc = "start"
    /\ run = 1
    /\ rotteningTreshold = 0
    /\ ignoredRepos = {}
    /\ fetched = << >>
    /\ issues = << >>
    /\ file \in InitialFiles
    /\ readBytes = << >>
    /\ numberOfIssuesLastWeek = 0
    /\ numberOfIssuesThisWeek = 0
    /\ slackeMessage = << >>
    /\ attachmentTexts = << >>
    /\ attachments = << >>
    /\ posted = << >>
    /\ events = << >>
    /\ fileAtStart = file
    /\ lastWritten = -1
    /\ fetches = 0
    /\ fatal = None

\* log.Fatal: the process ends here
Fatal(why) == pc' = "exit" /\ fatal' = why

\* lines 160-179: the environment, the flags, populateIgnoredRepos
Configure ==
    /\ pc = "start"
    /\ \/ /\ Fatal("config")
          /\ UNCHANGED << rotteningTreshold, ignoredRepos >>
       \/ /\ rotteningTreshold' \in MainTresholds
          /\ ignoredRepos' \in IgnoredSets
          /\ pc' = "configured"
          /\ UNCHANGED fatal
    /\ UNCHANGED << run, fetched, issues, file, readBytes, numberOfIssuesLastWeek,
                    numberOfIssuesThisWeek, slackeMessage, attachmentTexts,
                    attachments, posted, events, fileAtStart, lastWritten, fetches >>

\* the mutant of FetchOldIssues: an error is not fatal, the run goes on with
\* no issues
FetchOldIssuesLenient ==
    /\ pc = "configured"
    /\ fetches' = fetches + 1
    /\ \/ /\ \E why \in FetchErrors : fatal' = why
          /\ pc' = "fetched"
          /\ UNCHANGED << fetched, issues >>
       \/ /\ fetched' \in Responses
          /\ issues' = filterAndSortIssues(fetched', Bytes(rotteningTreshold, W64))
          /\ pc' = "fetched"
          /\ UNCHANGED fatal
    /\ UNCHANGED << run, rotteningTreshold, ignoredRepos, file, readBytes,
                    numberOfIssuesLastWeek, numberOfIssuesThisWeek, slackeMessage,
                    attachmentTexts, attachments, posted, events, fileAtStart,
                    lastWritten >>

\* line 182, fetchOldIssues: one request; any error is fatal
FetchOldIssues ==
    /\ pc = "configured"
    /\ fetches' = fetches + 1
    /\ \/ /\ \E why \in FetchErrors : Fatal(why)
          /\ UNCHANGED << fetched, issues >>
       \/ /\ fetched' \in Responses
          /\ issues' = filterAndSortIssues(fetched', Bytes(rotteningTreshold, W64))
          /\ pc' = "fetched"
          /\ UNCHANGED fatal
    /\ UNCHANGED << run, rotteningTreshold, ignoredRepos, file, readBytes,
                    numberOfIssuesLastWeek, numberOfIssuesThisWeek, slackeMessage,
                    attachmentTexts, attachments, posted, events, fileAtStart,
                    lastWritten >>

\* lines 184-188: a missing file is fatal; the error of Atoi is assigned and
\* never looked at
ReadCounter ==
    /\ pc = "fetched"
    /\ \/ /\ file = Missing
          /\ Fatal("read counter")
          /\ UNCHANGED << readBytes, numberOfIssuesLastWeek, numberOfIssuesThisWeek >>
       \/ /\ file # Missing
          /\ readBytes' = file
          /\ numberOfIssuesLastWeek' = Atoi(file).n
          /\ numberOfIssuesThisWeek' = Len(issues)
          /\ pc' = "read"
          /\ UNCHANGED fatal
    /\ UNCHANGED << run, rotteningTreshold, ignoredRepos, fetched, issues, file,
                    slackeMessage, attachmentTexts, attachments, posted, events,
                    fileAtStart, lastWritten, fetches >>

\* lines 189-205: the message and its attachments
Format ==
    /\ pc = "read"
    /\ LET r == formattedWeeklyIssues(issues, numberOfIssuesThisWeek,
                                      numberOfIssuesLastWeek, rotteningTreshold)
       IN  /\ slackeMessage' = r[1]
           /\ attachmentTexts' = r[2]
           /\ attachments' = [i \in 1..Len(r[2]) |->
                                 [Text       |-> r[2][i],
                                  Pretext    |-> IF i = 1 THEN "" ELSE NextBatch,
                                  MarkdownIn |-> << "text" >>]]
    /\ events' = Append(events, "format")
    /\ pc' = "formatted"
    /\ UNCHANGED << run, rotteningTreshold, ignoredRepos, fetched, issues, file,
                    readBytes, numberOfIssuesLastWeek, numberOfIssuesThisWeek,
                    posted, fileAtStart, lastWritten, fetches, fatal >>

\* the mutant of WriteCounter: last week's count is written back
WriteCounterStale ==
    /\ pc = "formatted"
    /\ file' = Itoa(numberOfIssuesLastWeek)
    /\ lastWritten' = numberOfIssuesThisWeek
    /\ events' = Append(events, "write")
    /\ pc' = "written"
    /\ UNCHANGED << run, rotteningTreshold, ignoredRepos, fetched, issues, readBytes,
                    numberOfIssuesLastWeek, numberOfIssuesThisWeek, slackeMessage,
                    attachmentTexts, attachments, posted, fileAtStart, fetches, fatal >>

\* lines 207-208: the file is overwritten; a failure is fatal and leaves the
\* file as it was (it could not be opened) or empty (it was truncated)
WriteCounter ==
    /\ pc = "formatted"
    /\ \/ /\ file' = Itoa(numberOfIssuesThisWeek)
          /\ lastWritten' = numberOfIssuesThisWeek
          /\ events' = Append(events, "write")
          /\ pc' = "written"
          /\ UNCHANGED fatal
       \/ /\ file' \in {file, << >>}
          /\ lastWritten' = IF file' = file THEN lastWritten ELSE -1
          /\ Fatal("write counter")
          /\ UNCHANGED events
    /\ UNCHANGED << run, rotteningTreshold, ignoredRepos, fetched, issues, readBytes,
                    numberOfIssuesLastWeek, numberOfIssuesThisWeek, slackeMessage,
                    attachmentTexts, attachments, posted, fileAtStart, fetches >>

\* lines 209-210: the post; a failure is fatal
PostMessage ==
    /\ pc = "written"
    /\ events' = Append(events, "post")
    /\ \/ /\ posted' = Append(posted, [text |-> slackeMessage, attachments |-> attachments])
          /\ pc' = "done"
          /\ UNCHANGED fatal
       \/ /\ Fatal("post")
          /\ UNCHANGED posted
    /\ UNCHANGED << run, rotteningTreshold, ignoredRepos, fetched, issues, file,
                    readBytes, numberOfIssuesLastWeek, numberOfIssuesThisWeek,
                    slackeMessage, attachmentTexts, attachments, fileAtStart,
                    lastWritten, fetches >>

\* the program is started again (the next week); only the file is kept
NextRun ==
    /\ pc \in {"done", "exit"}
    /\ run < MaxRuns
    /\ run' = run + 1
    /\ pc' = "start"
    /\ rotteningTreshold' = 0
    /\ ignoredRepos' = {}
    /\ fetched' = << >>
    /\ issues' = << >>
    /\ readBytes' = << >>
    /\ numberOfIssuesLastWeek' = 0
    /\ numberOfIssuesThisWeek' = 0
    /\ slackeMessage' = << >>
    /\ attachmentTexts' = << >>
    /\ attachments' = << >>
    /\ posted' = << >>
    /\ events' = << >>
    /\ fileAtStart' = file
    /\ fetches' = 0
    /\ fatal' = None
    /\ UNCHANGED << file, lastWritten >>

Init == InitMain

Next ==
    \/ Configure
    \/ FetchOldIssues
    \/ ReadCounter
    \/ Format
    \/ WriteCounter
    \/ PostMessage
    \/ NextRun

Spec == Init /\ [][Next]_vars

(***************************************************************************)
(* Statements about formattedWeeklyIssues (under SpecFormat).              *)
(***************************************************************************)
RECURSIVE Flatten(_)
Flatten(texts) == IF texts = << >> THEN << >> ELSE Head(texts) \o Flatten(Tail(texts))

\* C4: every attachment text formattedWeeklyIssues returns is at most 3500
\* long: a bullet that would take the running text over the cap starts a new
\* text instead.
C4_AttachmentsWithinCap ==
    pc = "formatted" =>
        \A i \in 1..Len(attachmentTexts) : textLen(attachmentTexts[i]) <= AttachmentMax

\* C10: when this week's count is not zero, the attachment texts, one after
\* the other, are the bullets of the input issues, one each, in the order of
\* the input, every text is made of whole bullets, and none is empty.
C10_SplittingKeepsEveryBullet ==
    (pc = "formatted" /\ numberOfIssuesThisWeek # 0) =>
        /\ Flatten(attachmentTexts) = [i \in 1..Len(issues) |-> bullet(issues[i])]
        /\ \A i \in 1..Len(attachmentTexts) : attachmentTexts[i] # << >>

\* C10's case: the issues were split into two texts, the first closed by the
\* bullet that took it over the cap and the second one left unfinished.
C10_Witness ==
    /\ pc = "formatted"
    /\ Len(attachmentTexts) = 2
    /\ textLen(attachmentTexts[1]) > AttachmentMax
    /\ textLen(attachmentTexts[2]) < AttachmentMax
    /\ Len(attachmentTexts[1]) + Len(attachmentTexts[2]) = Len(issues)

(***************************************************************************)
(* Statements about main (under Spec).                                     *)
(***************************************************************************)
Happened(what) == \E i \in 1..Len(events) : events[i] = what

IsPrefix(s, t) == Len(s) <= Len(t) /\ SubSeq(t, 1, Len(s)) = s

\* the counter file cannot be read as an integer
Unreadable(text) == text = Missing \/ Atoi(text).err

\* C5: when this week's count is zero the message is the congratulation,
\* with last week's count, and there are no attachments, also in what is
\* posted; when the count is not zero the message is not the congratulation.
C5_ZeroIssuesCongratulates ==
    Happened("format") =>
        /\ numberOfIssuesThisWeek = 0 =>
              /\ slackeMessage = [kind |-> "congratulations",
                                  lastWeek |-> numberOfIssuesLastWeek]
              /\ attachmentTexts = << >>
              /\ attachments = << >>
              /\ \A i \in 1..Len(posted) :
                    posted[i] = [text |-> slackeMessage, attachments |-> << >>]
        /\ numberOfIssuesThisWeek # 0 => slackeMessage.kind # "congratulations"

\* C5's case: a run with no rottening issue has posted.
C5_Witness ==
    /\ pc = "done"
    /\ numberOfIssuesThisWeek = 0
    /\ fetched # << >>
    /\ numberOfIssuesLastWeek = 12
    /\ Len(posted) = 1

\* C6: a counter file that is missing or does not parse as an integer ends
\* the run before a message is formatted or posted and before the file is
\* overwritten.
C6_UnreadableCounterIsFatal ==
    Unreadable(fileAtStart) =>
        /\ ~Happened("format") /\ ~Happened("write") /\ ~Happened("post")
        /\ posted = << >>
        /\ file = fileAtStart

\* C7 as stated: the run formats, then posts, then writes the counter file.
C7_WriteAfterPost == IsPrefix(events, << "format", "post", "write" >>)

\* C7 amended: the run formats, then writes the counter file, then posts; so a
\* run whose post fails has already put this week's count in the counter file.
C7_WriteBeforePost ==
    /\ IsPrefix(events, << "format", "write", "post" >>)
    /\ Happened("write") /\ ~Happened("post") => file = Itoa(numberOfIssuesThisWeek)
    /\ Happened("post") => file = Itoa(numberOfIssuesThisWeek)
    /\ fatal = "post" => posted = << >> /\ file = Itoa(numberOfIssuesThisWeek)

\* C7's case: the post failed and the counter file has changed.
C7_Witness ==
    /\ pc = "exit"
    /\ fatal = "post"
    /\ fileAtStart = << "7" >>
    /\ file = << "1", "1" >>

\* C8: a failed fetch ends the run at once: one request was sent, nothing
\* is posted, nothing is formatted and the counter file is as the run found it.
C8_FetchFailureEndsRun ==
    fatal \in FetchErrors =>
        /\ pc = "exit"
        /\ fetches = 1
        /\ posted = << >>
        /\ events = << >>
        /\ file = fileAtStart

\* C8's case: the second run's fetch failed after the first run wrote the file.
C8_Witness ==
    /\ pc = "exit"
    /\ fatal = "status"
    /\ run = 2
    /\ lastWritten = 11
    /\ file = << "1", "1" >>

\* C9: a run that reads the counter file as an earlier run wrote it, the
\* file untouched since, reads the count that run wrote.
C9_CounterRoundTrip ==
    (pc = "read" /\ lastWritten # -1) =>
        /\ ~Atoi(readBytes).err
        /\ numberOfIssuesLastWeek = lastWritten

\* C9's case: the second run read back a count of two digits.
C9_Witness ==
    /\ pc = "read"
    /\ run = 2
    /\ lastWritten = 11
    /\ numberOfIssuesLastWeek = 11
=============================================================================
